---- MODULE Spec2Model ----
(***************************************************************************)
(* Model of the TSE download pipeline: the cache metadata store            *)
(* (metadata_handler.py), the cache validator check_if_download_needed and *)
(* the orchestrator download_tse_data (download_data.py).                  *)
(***************************************************************************)
EXTENDS Integers, Sequences, FiniteSets, TLC

(***************************************************************************)
(* Values                                                                  *)
(***************************************************************************)

\* Python's None (absent dict key, JSON null).
None == "None"

\* Python truthiness of an optional string: None and "" are falsy.
Truthy(v) == v # None /\ v # ""

\* Python's `a or b`.
Or(a, b) == IF Truthy(a) THEN a ELSE b

\* A dict with no items ({} in the code).
EmptyDict == <<>>

\* dict.get(key) of a plain dict: exact key match, None when missing.
DictGet(d, k) == IF k \in DOMAIN d THEN d[k] ELSE None

\* str.lower() on the header names that occur in the model.
Lower(n) ==
    CASE n \in {"ETag", "etag", "ETAG", "Etag"} -> "etag"
      [] n \in {"Last-Modified", "last-modified", "LAST-MODIFIED"} -> "last-modified"
      [] OTHER -> n

\* A header mapping is [ci |-> BOOLEAN, m |-> dict]: ci is TRUE for the
\* case-insensitive mapping of an HTTP response (response.headers), FALSE
\* for a plain dict.  HeadersGet is its .get(name).
HeadersGet(h, name) ==
    IF h.ci
    THEN IF \E n \in DOMAIN h.m : Lower(n) = Lower(name)
         THEN h.m[CHOOSE n \in DOMAIN h.m : Lower(n) = Lower(name)]
         ELSE None
    ELSE DictGet(h.m, name)

(***************************************************************************)
(* config_ingest.py                                                        *)
(***************************************************************************)

CONSULTAS_CONFIG ==
    [ cand           |-> [consulta |-> "consulta_cand",
                          pasta_destino |-> "candidatos"],
      cassacao       |-> [consulta |-> "motivo_cassacao",
                          pasta_destino |-> "cassacao_candidatos"],
      bens           |-> [consulta |-> "bem_candidato",
                          pasta_destino |-> "bens_candidatos"],
      vot_partido    |-> [consulta |-> "votacao_partido_munzona",
                          pasta_destino |-> "votacao_partido_munzona"],
      vot_cand       |-> [consulta |-> "votacao_candidato_munzona",
                          pasta_destino |-> "votacao_candidato_munzona"],
      comparecimento |-> [consulta |-> "perfil_comparecimento_abstencao",
                          pasta_destino |-> "comparecimento_abstencao"] ]

(***************************************************************************)
(* metadata_handler.py: the persisted cache record                         *)
(***************************************************************************)

\* cache_key = f"{tipo_consulta}_{ano}"
CacheKey(tipo_consulta, ano) == tipo_consulta \o "_" \o ToString(ano)

\* One entry of the table, as update_metadata_after_download builds it.
Entry(etag, last_modified, relative_path) ==
    ("ETag" :> etag) @@ ("Last-Modified" :> last_modified)
        @@ ("file_path" :> relative_path)

\* json.dump / json.load of one optional string: None <-> null.
JsonValue(v) == IF v = None THEN <<"null">> ELSE <<"string", v>>

\* Mutant of PyValue: null is read back as the empty string.
PyValue_NullAsEmptyString(j) == IF j[1] = "null" THEN "" ELSE j[2]

PyValue(j) == IF j[1] = "null" THEN None ELSE j[2]

\* json.dump(data): the text of a whole table.
JsonDump(data) ==
    [k \in DOMAIN data |-> [f \in DOMAIN data[k] |-> JsonValue(data[k][f])]]

\* json.load(f) of a complete text.
JsonLoad(text) ==
    [k \in DOMAIN text |-> [f \in DOMAIN text[k] |-> PyValue(text[k][f])]]

\* The metadata file: absent, holding the complete JSON text of a table,
\* holding a truncated / partial text (after open(..., 'w') and before the
\* dump ends), or holding the JSON text `null` (valid JSON, not an object).
NoFile == [state |-> "absent", text |-> EmptyDict]
Truncated == [state |-> "truncated", text |-> EmptyDict]
NullFile == [state |-> "null", text |-> EmptyDict]
FileOf(data) == [state |-> "complete", text |-> JsonDump(data)]

\* What json.load returns for the text `null`: Python's None, where the
\* callers of load_metadata expect a dict.
NoneLoaded == ("__class__" :> "NoneType")

\* load_metadata: {} when the file is absent, when json.load raises
\* JSONDecodeError (truncated text) and when reading raises (readable = FALSE);
\* otherwise whatever json.load returned.
load_metadata(file, readable) ==
    IF file.state = "absent" THEN EmptyDict
    ELSE IF ~readable THEN EmptyDict
    ELSE IF file.state = "truncated" THEN EmptyDict
    ELSE IF file.state = "null" THEN NoneLoaded
    ELSE JsonLoad(file.text)

\* Mutant of CompareValidators: Last-Modified is compared before ETag.
CompareValidators_LastModifiedFirst(saved_meta, current_headers) ==
         LET current_etag == Or(HeadersGet(current_headers, "ETag"),
                                HeadersGet(current_headers, "etag"))
             current_last_modified ==
                 Or(HeadersGet(current_headers, "Last-Modified"),
                    HeadersGet(current_headers, "last-modified"))
         IN  IF Truthy(current_last_modified)
                /\ Truthy(DictGet(saved_meta, "Last-Modified"))
             THEN current_last_modified # saved_meta["Last-Modified"]
             ELSE IF Truthy(current_etag) /\ Truthy(DictGet(saved_meta, "ETag"))
                  THEN current_etag # saved_meta["ETag"]
                  ELSE TRUE

\* Mutant of CompareValidators: only the ETag is compared, there is no
\* fallback to Last-Modified.
CompareValidators_ETagOnly(saved_meta, current_headers) ==
         LET current_etag == Or(HeadersGet(current_headers, "ETag"),
                                HeadersGet(current_headers, "etag"))
         IN  IF Truthy(current_etag) /\ Truthy(DictGet(saved_meta, "ETag"))
             THEN current_etag # saved_meta["ETag"]
             ELSE TRUE

\* Mutant of CompareValidators: when no validator can be compared, the
\* cache is taken as valid.
CompareValidators_NothingToCompareIsValid(saved_meta, current_headers) ==
         LET current_etag == Or(HeadersGet(current_headers, "ETag"),
                                HeadersGet(current_headers, "etag"))
             current_last_modified ==
                 Or(HeadersGet(current_headers, "Last-Modified"),
                    HeadersGet(current_headers, "last-modified"))
         IN  IF Truthy(current_etag) /\ Truthy(DictGet(saved_meta, "ETag"))
             THEN current_etag # saved_meta["ETag"]
             ELSE IF Truthy(current_last_modified)
                     /\ Truthy(DictGet(saved_meta, "Last-Modified"))
                  THEN current_last_modified # saved_meta["Last-Modified"]
                  ELSE FALSE

\* Lines 108-134 of check_if_download_needed: the comparison of the HEAD
\* headers with the entry saved for the key.
CompareValidators(saved_meta, current_headers) ==
         LET current_etag == Or(HeadersGet(current_headers, "ETag"),
                                HeadersGet(current_headers, "etag"))
             current_last_modified ==
                 Or(HeadersGet(current_headers, "Last-Modified"),
                    HeadersGet(current_headers, "last-modified"))
         IN  IF Truthy(current_etag) /\ Truthy(DictGet(saved_meta, "ETag"))
             THEN current_etag # saved_meta["ETag"]
             ELSE IF Truthy(current_last_modified)
                     /\ Truthy(DictGet(saved_meta, "Last-Modified"))
                  THEN current_last_modified # saved_meta["Last-Modified"]
                  ELSE TRUE

\* Mutant of NeedsDownload: a key without entry is decided by the headers
\* alone, and a response without validators is taken as unchanged.
NeedsDownload_NoEntryNoDownload(metadata, cache_key, current_headers) ==
    IF cache_key \notin DOMAIN metadata
    THEN Truthy(Or(HeadersGet(current_headers, "ETag"),
                   HeadersGet(current_headers, "etag")))
    ELSE CompareValidators(metadata[cache_key], current_headers)

\* Lines 97-106: the decision of check_if_download_needed once the table is
\* loaded: no entry for the key means download.
NeedsDownload(metadata, cache_key, current_headers) ==
    IF cache_key \notin DOMAIN metadata THEN TRUE
    ELSE CompareValidators(metadata[cache_key], current_headers)

\* Line 104: `cache_key not in metadata` raises TypeError when load_metadata
\* returned None.
CheckRaises(file, readable) == load_metadata(file, readable) = NoneLoaded

\* check_if_download_needed(metadata_path, tipo_consulta, ano, current_headers),
\* when it does not raise.
check_if_download_needed(file, readable, tipo_consulta, ano, current_headers) ==
    NeedsDownload(load_metadata(file, readable),
                  CacheKey(tipo_consulta, ano), current_headers)

(***************************************************************************)
(* download_data.py: names, paths and the remote side                      *)
(***************************************************************************)

MAX_RETRIES == 3

\* Bound of the model: how often the publisher replaces a resource in a run.
MaxRemoteChanges == 1

TSE_BASE_URL == "https://cdn.tse.jus.br/estatistica/sead/odsele"

\* The callers (the request threads of SpecConc; Spec uses the first only).
Procs == {"p1", "p2"}

\* Requests the callers make: two configured dataset types, one that is
\* not configured, one election year.
RequestTipos == {"cand", "bens", "municipio"}
Anos == {2022}
ValidTipos == RequestTipos \cap DOMAIN CONSULTAS_CONFIG

\* The base path handed to download_tse_data, already absolute.
BasePath == "/data/raw"

\* datetime.now().strftime('%Y%m%d'): all runs of the model happen on one day.
data_ingestao == "20261104"

\* arquivo_zip and url (lines 65-66)
ArquivoZip(tipo, ano) ==
    CONSULTAS_CONFIG[tipo].consulta \o "_" \o ToString(ano) \o ".zip"
Url(tipo, ano) ==
    TSE_BASE_URL \o "/" \o CONSULTAS_CONFIG[tipo].consulta \o "/" \o ArquivoZip(tipo, ano)
Urls == {Url(t, a) : t \in ValidTipos, a \in Anos}

\* arquivo_brasil (line 142)
ArquivoBrasil(tipo, ano) ==
    CONSULTAS_CONFIG[tipo].consulta \o "_" \o ToString(ano) \o "_BRASIL.csv"

\* Other members a TSE archive carries.
ArquivoUF(tipo, ano) ==
    CONSULTAS_CONFIG[tipo].consulta \o "_" \o ToString(ano) \o "_SP.csv"
Leiame == "leiame.pdf"

\* arquivo.endswith('_BRASIL.csv') on the member names of the model.
EndsWithBrasilCsv(arquivo) ==
    \E t \in ValidTipos, a \in Anos : arquivo = ArquivoBrasil(t, a)

\* nome_arquivo_final and the destination relative to base_path (lines 173-179)
NomeArquivoFinal(tipo, ano, data) ==
    CONSULTAS_CONFIG[tipo].consulta \o "_" \o ToString(ano) \o "_BRASIL_" \o data \o ".csv"
DestinoRel(tipo, ano, data) ==
    CONSULTAS_CONFIG[tipo].pasta_destino \o "/" \o ToString(ano) \o "/"
        \o NomeArquivoFinal(tipo, ano, data)
CaminhoFinal(base, tipo, ano, data) == base \o "/" \o DestinoRel(tipo, ano, data)

RelPaths == {DestinoRel(t, a, data_ingestao) : t \in ValidTipos, a \in Anos}
FinalPaths == {CaminhoFinal(BasePath, t, a, data_ingestao) : t \in ValidTipos, a \in Anos}

\* Mutant of RelativePath: only the name of the file is kept, as in the
\* branch without base_path.
RelativePath_NameOnly(file_path, base_path) ==
    IF \E t \in ValidTipos, a \in Anos :
           CaminhoFinal(base_path, t, a, data_ingestao) = file_path
    THEN LET ta == CHOOSE ta \in ValidTipos \X Anos :
                       CaminhoFinal(base_path, ta[1], ta[2], data_ingestao) = file_path
         IN  NomeArquivoFinal(ta[1], ta[2], data_ingestao)
    ELSE file_path

\* relative_path of update_metadata_after_download (lines 166-190):
\* file_path.relative_to(base_path), the absolute path on ValueError.
RelativePath(file_path, base_path) ==
    IF \E r \in RelPaths : base_path \o "/" \o r = file_path
    THEN CHOOSE r \in RelPaths : base_path \o "/" \o r = file_path
    ELSE file_path

\* Validation headers a remote resource can carry (None: header not sent):
\* both validators, a new ETag, Last-Modified only, or none at all.
RemoteStates ==
    {[etag |-> "v1", last_modified |-> "t1"], [etag |-> "v2", last_modified |-> "t1"],
     [etag |-> None, last_modified |-> "t1"], [etag |-> None, last_modified |-> None]}

\* What the TSE CDN sends for a published archive: both validators.
InitialRemote == [etag |-> "v1", last_modified |-> "t1"]

\* response.headers of a request answered by a resource in state r.
ResponseHeaders(r) ==
    [ci |-> TRUE,
     m  |-> [n \in ({"ETag" : x \in {r.etag} \ {None}}
                    \cup {"Last-Modified" : x \in {r.last_modified} \ {None}})
             |-> IF n = "ETag" THEN r.etag ELSE r.last_modified]]
NoHeaders == [ci |-> TRUE, m |-> EmptyDict]

\* The downloaded archive: not a ZIP at all, or a ZIP with its namelist().
BadZip == [valid |-> FALSE, namelist |-> <<>>]
ZipOf(names) == [valid |-> TRUE, namelist |-> names]
Archives(tipo, ano) ==
    {BadZip,
     ZipOf(<<Leiame, ArquivoUF(tipo, ano)>>),
     ZipOf(<<Leiame, ArquivoUF(tipo, ano), ArquivoBrasil(tipo, ano)>>)}

\* The member the loop of lines 151-159 extracts: index of the first match,
\* 0 when there is none.
MemberIndex(zip, arquivo_brasil) ==
    LET hits == {i \in DOMAIN zip.namelist :
                    EndsWithBrasilCsv(zip.namelist[i]) \/ zip.namelist[i] = arquivo_brasil}
    IN  IF hits = {} THEN 0 ELSE CHOOSE i \in hits : \A j \in hits : i <= j

\* What a call returns or raises.
Returned(v) == [kind |-> "return", value |-> v]
Raised(e) == [kind |-> "raise", value |-> e]
NoResult == [kind |-> "none", value |-> None]

\* Mutant of UpdatedMetadata: the entry is filed under the dataset type
\* alone, without the year.
UpdatedMetadata_KeyWithoutYear(loaded, tipo, a, new_headers, file_path, base_path) ==
    LET etag == Or(HeadersGet(new_headers, "ETag"), HeadersGet(new_headers, "etag"))
        last_modified == Or(HeadersGet(new_headers, "Last-Modified"),
                            HeadersGet(new_headers, "last-modified"))
        relative_path == RelativePath(file_path, base_path)
    IN  (tipo :> Entry(etag, last_modified, relative_path)) @@ loaded

\* Lines 156-197 of update_metadata_after_download: the dict it saves,
\* given the dict load_metadata returned.
UpdatedMetadata(loaded, tipo, a, new_headers, file_path, base_path) ==
    LET cache_key == CacheKey(tipo, a)
        etag == Or(HeadersGet(new_headers, "ETag"), HeadersGet(new_headers, "etag"))
        last_modified == Or(HeadersGet(new_headers, "Last-Modified"),
                            HeadersGet(new_headers, "last-modified"))
        relative_path == RelativePath(file_path, base_path)
    IN  (cache_key :> Entry(etag, last_modified, relative_path)) @@ loaded

(***************************************************************************)
(* State                                                                   *)
(***************************************************************************)

VARIABLES
    procs,            \* the callers that run download_tse_data
    remote,           \* Url -> validation headers the server sends now
    changes,          \* how often the publisher replaced a resource so far
    metaFile,         \* base_path/tse_cache_metadata.json
    artifacts,        \* final path -> "absent" | "partial" | "complete"
    persisted,        \* history: final paths an artifact was once completely written to
    pc,               \* caller -> position in download_tse_data
    tipo_consulta,    \* caller -> argument tipo_consulta
    ano,              \* caller -> argument ano
    attempt,          \* caller -> loop variable of the HEAD retry loop
    head_headers,     \* caller -> head_response.headers
    response_headers, \* caller -> response.headers of the GET
    zip,              \* caller -> the archive saved in temp_dir
    temp_dir,         \* caller -> the TemporaryDirectory exists
    metadata,         \* caller -> the dict update_metadata_after_download saves
    result,           \* caller -> what the call returned or raised
    hist,             \* history: caller -> what the running call did so far
    meta_before,      \* history: caller -> metaFile when the call began
    artifacts_before, \* history: caller -> artifacts when the call began
    last,             \* history: the previous call, while the remote is unchanged
    v_in,             \* validator check: inputs of check_if_download_needed
    v_out,            \* validator check: its result
    store             \* store check: save_metadata and load_metadata on a file

fsVars == <<remote, changes, metaFile, artifacts, persisted>>
callVars == <<pc, tipo_consulta, ano, attempt, head_headers, response_headers,
              zip, temp_dir, metadata, result>>
histVars == <<hist, meta_before, artifacts_before, last>>
valVars == <<v_in, v_out, store>>
vars == <<procs, fsVars, callVars, histVars, valVars>>

\* History of one call: HEAD requests issued and failed, whether one
\* succeeded and the headers of its response, the headers handed to
\* check_if_download_needed and its answer ("none" | "needed" | "valid" |
\* "raised"), whether its read of the metadata file raised, temporary
\* directories created, GET requests issued, whether the GET succeeded and
\* the headers of its response, whether the resource was replaced after the
\* GET, whether the member was extracted and copied to the final path, how
\* often the metadata file was opened for writing, and how
\* update_metadata_after_download ended ("none" | "ok" | "raised").
NoHist == [heads |-> 0, head_failures |-> 0, head_ok |-> FALSE, probe |-> NoHeaders,
           checked |-> NoHeaders, check |-> "none", read_failed |-> FALSE,
           temps |-> 0, gets |-> 0, get_ok |-> FALSE, get |-> NoHeaders,
           changed_after_get |-> FALSE, extracted |-> FALSE, copied |-> FALSE,
           writes |-> 0, update |-> "none"]

NoLast == [key |-> None, kind |-> "none", saved |-> FALSE, fresh |-> FALSE]
NoInput == [file |-> NoFile, readable |-> TRUE, tipo_consulta |-> "cand",
            ano |-> 2022, headers |-> NoHeaders]
NoOutput == [done |-> FALSE, needed |-> FALSE]

\* The store check: the metadata file, the table handed to save_metadata,
\* how far the check is ("off" | "start" | "saved" | "loaded" | "checked"),
\* how save_metadata ended ("none" | "ok" | "raised"), whether the read of
\* load_metadata went through, what it returned, and what
\* check_if_download_needed did ("none" | "needed" | "valid" | "raised").
NoStore == [file |-> NoFile, data |-> EmptyDict, step |-> "off", save |-> "none",
            readable |-> TRUE, loaded |-> EmptyDict, check |-> "none"]

InitCalls ==
    /\ remote = [u \in Urls |-> InitialRemote]
    /\ changes = 0
    /\ metaFile = NoFile
    /\ artifacts = [f \in FinalPaths |-> "absent"]
    /\ persisted = {}
    /\ pc = [p \in Procs |-> "idle"]
    /\ tipo_consulta = [p \in Procs |-> "cand"]
    /\ ano = [p \in Procs |-> 2022]
    /\ attempt = [p \in Procs |-> 0]
    /\ head_headers = [p \in Procs |-> NoHeaders]
    /\ response_headers = [p \in Procs |-> NoHeaders]
    /\ zip = [p \in Procs |-> BadZip]
    /\ temp_dir = [p \in Procs |-> FALSE]
    /\ metadata = [p \in Procs |-> EmptyDict]
    /\ result = [p \in Procs |-> NoResult]
    /\ hist = [p \in Procs |-> NoHist]
    /\ meta_before = [p \in Procs |-> NoFile]
    /\ artifacts_before = [p \in Procs |-> artifacts]
    /\ last = NoLast
    /\ v_out = NoOutput

\* One caller, one call after the other.
Init == procs = {"p1"} /\ InitCalls /\ v_in = NoInput /\ store = NoStore

\* Two callers, each making one call, in parallel.
InitConc == procs = Procs /\ InitCalls /\ v_in = NoInput /\ store = NoStore

(***************************************************************************)
(* download_tse_data, step by step                                         *)
(***************************************************************************)

\* Mutant of Finish: the temporary directory is left behind.
Finish_KeepsTempDir(p, r) ==
    /\ pc' = [pc EXCEPT ![p] = "done"]
    /\ result' = [result EXCEPT ![p] = r]
    /\ UNCHANGED temp_dir
    /\ attempt' = [attempt EXCEPT ![p] = 0]
    /\ head_headers' = [head_headers EXCEPT ![p] = NoHeaders]
    /\ response_headers' = [response_headers EXCEPT ![p] = NoHeaders]
    /\ zip' = [zip EXCEPT ![p] = BadZip]
    /\ metadata' = [metadata EXCEPT ![p] = EmptyDict]

\* Leaving the function: the `with` block releases temp_dir on every path.
Finish(p, r) ==
    /\ pc' = [pc EXCEPT ![p] = "done"]
    /\ result' = [result EXCEPT ![p] = r]
    /\ temp_dir' = [temp_dir EXCEPT ![p] = FALSE]
    /\ attempt' = [attempt EXCEPT ![p] = 0]
    /\ head_headers' = [head_headers EXCEPT ![p] = NoHeaders]
    /\ response_headers' = [response_headers EXCEPT ![p] = NoHeaders]
    /\ zip' = [zip EXCEPT ![p] = BadZip]
    /\ metadata' = [metadata EXCEPT ![p] = EmptyDict]

\* A step that stays inside the function and changes only pc.
Goto(p, label) ==
    /\ pc' = [pc EXCEPT ![p] = label]
    /\ UNCHANGED <<attempt, head_headers, response_headers, zip, temp_dir,
                   metadata, result>>

\* Mutant of Call: tipo_consulta is validated after the temporary directory
\* was created.
Call_ValidatesLate(p, t, a) ==
    /\ pc[p] = "idle"
    /\ tipo_consulta' = [tipo_consulta EXCEPT ![p] = t]
    /\ ano' = [ano EXCEPT ![p] = a]
    /\ meta_before' = [meta_before EXCEPT ![p] = metaFile]
    /\ artifacts_before' = [artifacts_before EXCEPT ![p] = artifacts]
    /\ IF t \notin DOMAIN CONSULTAS_CONFIG
       THEN /\ pc' = [pc EXCEPT ![p] = "done"]
            /\ result' = [result EXCEPT ![p] = Raised("ValueError")]
            /\ hist' = [hist EXCEPT ![p] = [NoHist EXCEPT !.temps = 1]]
            /\ UNCHANGED attempt
       ELSE /\ pc' = [pc EXCEPT ![p] = "head"]
            /\ attempt' = [attempt EXCEPT ![p] = 1]
            /\ hist' = [hist EXCEPT ![p] = NoHist]
            /\ UNCHANGED result
    /\ UNCHANGED <<procs, fsVars, head_headers, response_headers, zip, temp_dir,
                   metadata, last, valVars>>

\* Lines 21-74: the call, the validation of tipo_consulta, url and paths.
Call(p, t, a) ==
    /\ pc[p] = "idle"
    /\ tipo_consulta' = [tipo_consulta EXCEPT ![p] = t]
    /\ ano' = [ano EXCEPT ![p] = a]
    /\ hist' = [hist EXCEPT ![p] = NoHist]
    /\ meta_before' = [meta_before EXCEPT ![p] = metaFile]
    /\ artifacts_before' = [artifacts_before EXCEPT ![p] = artifacts]
    /\ IF t \notin DOMAIN CONSULTAS_CONFIG
       THEN /\ pc' = [pc EXCEPT ![p] = "done"]
            /\ result' = [result EXCEPT ![p] = Raised("ValueError")]
            /\ UNCHANGED attempt
       ELSE /\ pc' = [pc EXCEPT ![p] = "head"]
            /\ attempt' = [attempt EXCEPT ![p] = 1]
            /\ UNCHANGED result
    /\ UNCHANGED <<procs, fsVars, head_headers, response_headers, zip, temp_dir,
                   metadata, last, valVars>>

\* Mutant of HeadRequest: after the last failed attempt the download goes
\* ahead without a cache check.
HeadRequest_FallsBack(p, ok) ==
    /\ pc[p] = "head"
    /\ IF ok
       THEN /\ head_headers' = [head_headers EXCEPT
                   ![p] = ResponseHeaders(remote[Url(tipo_consulta[p], ano[p])])]
            /\ hist' = [hist EXCEPT
                   ![p].heads = @ + 1,
                   ![p].head_ok = TRUE,
                   ![p].probe = ResponseHeaders(remote[Url(tipo_consulta[p], ano[p])])]
            /\ pc' = [pc EXCEPT ![p] = "check"]
            /\ UNCHANGED <<attempt, result, temp_dir, response_headers, zip, metadata>>
       ELSE /\ hist' = [hist EXCEPT ![p].heads = @ + 1, ![p].head_failures = @ + 1]
            /\ IF attempt[p] < MAX_RETRIES
               THEN /\ attempt' = [attempt EXCEPT ![p] = @ + 1]
                    /\ UNCHANGED <<pc, head_headers, result, temp_dir,
                                   response_headers, zip, metadata>>
               ELSE Goto(p, "tempdir")
    /\ UNCHANGED <<procs, fsVars, tipo_consulta, ano, meta_before, artifacts_before,
                   last, valVars>>

\* Mutant of HeadRequest: the loop makes one attempt more than MAX_RETRIES.
HeadRequest_OneMoreAttempt(p, ok) ==
    /\ pc[p] = "head"
    /\ IF ok
       THEN /\ head_headers' = [head_headers EXCEPT
                   ![p] = ResponseHeaders(remote[Url(tipo_consulta[p], ano[p])])]
            /\ hist' = [hist EXCEPT
                   ![p].heads = @ + 1,
                   ![p].head_ok = TRUE,
                   ![p].probe = ResponseHeaders(remote[Url(tipo_consulta[p], ano[p])])]
            /\ pc' = [pc EXCEPT ![p] = "check"]
            /\ UNCHANGED <<attempt, result, temp_dir, response_headers, zip, metadata>>
       ELSE /\ hist' = [hist EXCEPT ![p].heads = @ + 1, ![p].head_failures = @ + 1]
            /\ IF attempt[p] <= MAX_RETRIES
               THEN /\ attempt' = [attempt EXCEPT ![p] = @ + 1]
                    /\ UNCHANGED <<pc, head_headers, result, temp_dir,
                                   response_headers, zip, metadata>>
               ELSE Finish(p, Raised("RequestException"))
    /\ UNCHANGED <<procs, fsVars, tipo_consulta, ano, meta_before, artifacts_before,
                   last, valVars>>

\* Lines 81-103: one iteration of the HEAD retry loop, and the abort after it.
HeadRequest(p, ok) ==
    /\ pc[p] = "head"
    /\ IF ok
       THEN /\ head_headers' = [head_headers EXCEPT
                   ![p] = ResponseHeaders(remote[Url(tipo_consulta[p], ano[p])])]
            /\ hist' = [hist EXCEPT
                   ![p].heads = @ + 1,
                   ![p].head_ok = TRUE,
                   ![p].probe = ResponseHeaders(remote[Url(tipo_consulta[p], ano[p])])]
            /\ pc' = [pc EXCEPT ![p] = "check"]
            /\ UNCHANGED <<attempt, result, temp_dir, response_headers, zip, metadata>>
       ELSE /\ hist' = [hist EXCEPT ![p].heads = @ + 1, ![p].head_failures = @ + 1]
            /\ IF attempt[p] < MAX_RETRIES
               THEN /\ attempt' = [attempt EXCEPT ![p] = @ + 1]
                    /\ UNCHANGED <<pc, head_headers, result, temp_dir,
                                   response_headers, zip, metadata>>
               ELSE Finish(p, Raised("RequestException"))
    /\ UNCHANGED <<procs, fsVars, tipo_consulta, ano, meta_before, artifacts_before,
                   last, valVars>>

\* Mutant of Check: the `return None` is missing, the download goes ahead.
Check_MissingReturn(p, readable) ==
    /\ pc[p] = "check"
    /\ LET needed == check_if_download_needed(metaFile, readable, tipo_consulta[p],
                                              ano[p], head_headers[p])
       IN  /\ hist' = [hist EXCEPT
                  ![p].checked = head_headers[p],
                  ![p].check = IF needed THEN "needed" ELSE "valid",
                  ![p].read_failed = ~readable /\ metaFile.state # "absent"]
           /\ Goto(p, "tempdir")
    /\ UNCHANGED <<procs, fsVars, tipo_consulta, ano, meta_before, artifacts_before,
                   last, valVars>>

\* Lines 105-115: check_if_download_needed on the HEAD headers.  Its
\* TypeError is not caught by download_tse_data.
Check(p, readable) ==
    /\ pc[p] = "check"
    /\ IF CheckRaises(metaFile, readable)
       THEN /\ hist' = [hist EXCEPT ![p].checked = head_headers[p],
                                     ![p].check = "raised"]
            /\ Finish(p, Raised("TypeError"))
       ELSE LET needed == check_if_download_needed(metaFile, readable,
                              tipo_consulta[p], ano[p], head_headers[p])
            IN  /\ hist' = [hist EXCEPT
                       ![p].checked = head_headers[p],
                       ![p].check = IF needed THEN "needed" ELSE "valid",
                       ![p].read_failed = ~readable /\ metaFile.state # "absent"]
                /\ IF needed
                   THEN Goto(p, "tempdir")
                   ELSE Finish(p, Returned(None))
    /\ UNCHANGED <<procs, fsVars, tipo_consulta, ano, meta_before, artifacts_before,
                   last, valVars>>

\* Line 120: tempfile.TemporaryDirectory().
TempDir(p) ==
    /\ pc[p] = "tempdir"
    /\ temp_dir' = [temp_dir EXCEPT ![p] = TRUE]
    /\ hist' = [hist EXCEPT ![p].temps = @ + 1]
    /\ pc' = [pc EXCEPT ![p] = "get"]
    /\ UNCHANGED <<procs, fsVars, tipo_consulta, ano, attempt, head_headers,
                   response_headers, zip, metadata, result, meta_before,
                   artifacts_before, last, valVars>>

\* Lines 124-139: the GET and the save of the archive in temp_dir.
GetRequest(p, ok, archive) ==
    /\ pc[p] = "get"
    /\ IF ok
       THEN /\ hist' = [hist EXCEPT
                   ![p].gets = @ + 1,
                   ![p].get_ok = TRUE,
                   ![p].get = ResponseHeaders(remote[Url(tipo_consulta[p], ano[p])])]
            /\ response_headers' = [response_headers EXCEPT
                   ![p] = ResponseHeaders(remote[Url(tipo_consulta[p], ano[p])])]
            /\ zip' = [zip EXCEPT ![p] = archive]
            /\ pc' = [pc EXCEPT ![p] = "extract"]
            /\ UNCHANGED <<attempt, head_headers, result, temp_dir, metadata>>
       ELSE /\ hist' = [hist EXCEPT ![p].gets = @ + 1]
            /\ Finish(p, Raised("RequestException"))
    /\ UNCHANGED <<procs, fsVars, tipo_consulta, ano, meta_before, artifacts_before,
                   last, valVars>>

\* Mutant of Extract: the cache entry is recorded as soon as the archive is
\* downloaded, before it is opened.
Extract_RecordsDownload(p) ==
    /\ pc[p] = "extract"
    /\ metaFile' = FileOf(UpdatedMetadata(load_metadata(metaFile, TRUE),
                       tipo_consulta[p], ano[p], response_headers[p],
                       CaminhoFinal(BasePath, tipo_consulta[p], ano[p], data_ingestao),
                       BasePath))
    /\ IF ~zip[p].valid
       THEN Finish(p, Raised("BadZipFile")) /\ UNCHANGED hist
       ELSE IF MemberIndex(zip[p], ArquivoBrasil(tipo_consulta[p], ano[p])) = 0
            THEN Finish(p, Raised("FileNotFoundError")) /\ UNCHANGED hist
            ELSE /\ Goto(p, "store")
                 /\ hist' = [hist EXCEPT ![p].extracted = TRUE]
    /\ UNCHANGED <<procs, remote, changes, artifacts, persisted, tipo_consulta, ano,
                   meta_before, artifacts_before, last, valVars>>

\* Lines 141-170: open the archive, find and extract the BRASIL member.
Extract(p) ==
    /\ pc[p] = "extract"
    /\ IF ~zip[p].valid
       THEN Finish(p, Raised("BadZipFile")) /\ UNCHANGED hist
       ELSE IF MemberIndex(zip[p], ArquivoBrasil(tipo_consulta[p], ano[p])) = 0
            THEN Finish(p, Raised("FileNotFoundError")) /\ UNCHANGED hist
            ELSE /\ Goto(p, "store")
                 /\ hist' = [hist EXCEPT ![p].extracted = TRUE]
    /\ UNCHANGED <<procs, fsVars, tipo_consulta, ano, meta_before, artifacts_before,
                   last, valVars>>

\* Mutant of Store: the cache entry is saved before the copy, also when the
\* copy then fails.
Store_SavesBeforeCopy(p, outcome) ==
    /\ pc[p] = "store"
    /\ LET caminho_final ==
               CaminhoFinal(BasePath, tipo_consulta[p], ano[p], data_ingestao)
           saved == FileOf(UpdatedMetadata(load_metadata(metaFile, TRUE),
                        tipo_consulta[p], ano[p], response_headers[p], caminho_final,
                        BasePath))
       IN  CASE outcome \in {"mkdir", "open"} ->
                    /\ Finish(p, Raised("IOError"))
                    /\ UNCHANGED <<artifacts, persisted, metaFile, hist>>
             [] outcome = "write" ->
                    /\ Finish(p, Raised("IOError"))
                    /\ artifacts' = [artifacts EXCEPT ![caminho_final] = "partial"]
                    /\ UNCHANGED persisted
                    /\ metaFile' = saved
                    /\ hist' = [hist EXCEPT ![p].writes = @ + 1]
             [] outcome = "ok" ->
                    /\ artifacts' = [artifacts EXCEPT ![caminho_final] = "complete"]
                    /\ persisted' = persisted \cup {caminho_final}
                    /\ metaFile' = saved
                    /\ hist' = [hist EXCEPT ![p].copied = TRUE, ![p].writes = @ + 1]
                    /\ Goto(p, "update_load")
    /\ UNCHANGED <<procs, remote, changes, tipo_consulta, ano, meta_before,
                   artifacts_before, last, valVars>>

\* Lines 172-189 and 206-208: mkdir of the destination, then the copy.
\* outcome: "mkdir" fails, "open" of the destination fails, "write" fails
\* after the destination was opened (and truncated), or "ok".
Store(p, outcome) ==
    /\ pc[p] = "store"
    /\ LET caminho_final ==
               CaminhoFinal(BasePath, tipo_consulta[p], ano[p], data_ingestao)
       IN  CASE outcome = "mkdir" ->
                    /\ Finish(p, Raised("OSError"))
                    /\ UNCHANGED <<artifacts, persisted, hist>>
             [] outcome = "open" ->
                    /\ Finish(p, Raised("IOError"))
                    /\ UNCHANGED <<artifacts, persisted, hist>>
             [] outcome = "write" ->
                    /\ Finish(p, Raised("IOError"))
                    /\ artifacts' = [artifacts EXCEPT ![caminho_final] = "partial"]
                    /\ UNCHANGED persisted
                    /\ UNCHANGED hist
             [] outcome = "ok" ->
                    /\ artifacts' = [artifacts EXCEPT ![caminho_final] = "complete"]
                    /\ persisted' = persisted \cup {caminho_final}
                    /\ hist' = [hist EXCEPT ![p].copied = TRUE]
                    /\ Goto(p, "update_load")
    /\ UNCHANGED <<procs, remote, changes, metaFile, tipo_consulta, ano, meta_before,
                   artifacts_before, last, valVars>>

\* What download_tse_data returns once the artifact is stored (line 210).
StoredPath(p) ==
    Returned(CaminhoFinal(BasePath, tipo_consulta[p], ano[p], data_ingestao))

\* Mutant of UpdateLoad: the entry is built from the headers of the HEAD
\* response.
UpdateLoad_UsesHeadHeaders(p, readable) ==
    /\ pc[p] = "update_load"
    /\ metadata' = [metadata EXCEPT ![p] =
           UpdatedMetadata(load_metadata(metaFile, readable),
               tipo_consulta[p], ano[p], head_headers[p],
               CaminhoFinal(BasePath, tipo_consulta[p], ano[p], data_ingestao),
               BasePath)]
    /\ pc' = [pc EXCEPT ![p] = "save_open"]
    /\ UNCHANGED <<attempt, head_headers, response_headers, zip, temp_dir,
                   result, hist>>
    /\ UNCHANGED <<procs, fsVars, tipo_consulta, ano, meta_before, artifacts_before,
                   last, valVars>>

\* Lines 194-202 and metadata_handler 156-197: load the table, set the entry.
\* When load_metadata returned None, the assignment of line 193 raises
\* TypeError, which line 203 of download_tse_data swallows.
UpdateLoad(p, readable) ==
    /\ pc[p] = "update_load"
    /\ IF load_metadata(metaFile, readable) = NoneLoaded
       THEN /\ hist' = [hist EXCEPT ![p].update = "raised"]
            /\ Finish(p, StoredPath(p))
       ELSE /\ metadata' = [metadata EXCEPT ![p] =
                   UpdatedMetadata(load_metadata(metaFile, readable),
                       tipo_consulta[p], ano[p], response_headers[p],
                       CaminhoFinal(BasePath, tipo_consulta[p], ano[p], data_ingestao),
                       BasePath)]
            /\ pc' = [pc EXCEPT ![p] = "save_open"]
            /\ UNCHANGED <<attempt, head_headers, response_headers, zip, temp_dir,
                           result, hist>>
    /\ UNCHANGED <<procs, fsVars, tipo_consulta, ano, meta_before, artifacts_before,
                   last, valVars>>

\* save_metadata lines 62-65: mkdir of the parent and open(metadata_path, 'w'),
\* which truncates the file.  When either raises, save_metadata re-raises and
\* line 203 of download_tse_data swallows the exception.
SaveOpen(p, ok) ==
    /\ pc[p] = "save_open"
    /\ IF ok
       THEN /\ metaFile' = Truncated
            /\ Goto(p, "save_write")
            /\ hist' = [hist EXCEPT ![p].writes = @ + 1]
       ELSE /\ Finish(p, StoredPath(p))
            /\ hist' = [hist EXCEPT ![p].update = "raised"]
            /\ UNCHANGED metaFile
    /\ UNCHANGED <<procs, remote, changes, artifacts, persisted, tipo_consulta, ano, meta_before,
                   artifacts_before, last, valVars>>

\* Mutant of SaveWrite: the exception of save_metadata is not swallowed but
\* reaches the handler of line 206 and is raised as IOError.
SaveWrite_Propagates(p, ok) ==
    /\ pc[p] = "save_write"
    /\ metaFile' = IF ok THEN FileOf(metadata[p]) ELSE Truncated
    /\ hist' = [hist EXCEPT ![p].update = IF ok THEN "ok" ELSE "raised"]
    /\ Finish(p, IF ok THEN Returned(CaminhoFinal(BasePath, tipo_consulta[p], ano[p],
                                                  data_ingestao))
                 ELSE Raised("IOError"))
    /\ UNCHANGED <<procs, remote, changes, artifacts, persisted, tipo_consulta, ano, meta_before,
                   artifacts_before, last, valVars>>

\* save_metadata lines 66-71: json.dump and the close of the file, then the
\* return of download_tse_data.  When the write raises, the file keeps the
\* partial text written so far.
SaveWrite(p, ok) ==
    /\ pc[p] = "save_write"
    /\ metaFile' = IF ok THEN FileOf(metadata[p]) ELSE Truncated
    /\ hist' = [hist EXCEPT ![p].update = IF ok THEN "ok" ELSE "raised"]
    /\ Finish(p, StoredPath(p))
    /\ UNCHANGED <<procs, remote, changes, artifacts, persisted, tipo_consulta, ano, meta_before,
                   artifacts_before, last, valVars>>

\* The caller takes the result; the next call can begin.
Return(p) ==
    /\ pc[p] = "done"
    /\ pc' = [pc EXCEPT ![p] = "idle"]
    /\ result' = [result EXCEPT ![p] = NoResult]
    /\ last' = IF tipo_consulta[p] \in DOMAIN CONSULTAS_CONFIG
               THEN [key   |-> CacheKey(tipo_consulta[p], ano[p]),
                     kind  |-> IF result[p].kind = "raise" THEN "failed"
                               ELSE IF result[p].value = None THEN "skipped"
                               ELSE "path",
                     saved |-> hist[p].update = "ok",
                     fresh |-> hist[p].gets = 1 /\ ~hist[p].changed_after_get]
               ELSE NoLast
    /\ tipo_consulta' = [tipo_consulta EXCEPT ![p] = "cand"]
    /\ ano' = [ano EXCEPT ![p] = 2022]
    /\ hist' = [hist EXCEPT ![p] = NoHist]
    /\ meta_before' = [meta_before EXCEPT ![p] = NoFile]
    /\ artifacts_before' = [artifacts_before EXCEPT ![p] = [f \in FinalPaths |-> "absent"]]
    /\ UNCHANGED <<procs, fsVars, attempt, head_headers, response_headers, zip,
                   temp_dir, metadata, valVars>>

\* The publisher replaces the resource behind a url: its headers change.
RemoteChange(u, r) ==
    /\ changes < MaxRemoteChanges
    /\ changes' = changes + 1
    /\ r # remote[u]
    /\ remote' = [remote EXCEPT ![u] = r]
    /\ last' = NoLast
    /\ hist' = [p \in Procs |->
                   IF hist[p].gets > 0 /\ pc[p] # "idle"
                      /\ tipo_consulta[p] \in DOMAIN CONSULTAS_CONFIG
                      /\ Url(tipo_consulta[p], ano[p]) = u
                   THEN [hist[p] EXCEPT !.changed_after_get = TRUE]
                   ELSE hist[p]]
    /\ UNCHANGED <<procs, metaFile, artifacts, persisted, callVars, meta_before,
                   artifacts_before, valVars>>

Next ==
    \/ \E p \in procs, t \in RequestTipos, a \in Anos : Call(p, t, a)
    \/ \E p \in procs, ok \in BOOLEAN : HeadRequest(p, ok)
    \/ \E p \in procs, readable \in BOOLEAN : Check(p, readable)
    \/ \E p \in procs : TempDir(p)
    \/ \E p \in procs : /\ pc[p] = "get"
                        /\ \E ok \in BOOLEAN,
                              archive \in Archives(tipo_consulta[p], ano[p]) :
                               GetRequest(p, ok, archive)
    \/ \E p \in procs : Extract(p)
    \/ \E p \in procs, outcome \in {"mkdir", "open", "write", "ok"} : Store(p, outcome)
    \/ \E p \in procs, readable \in BOOLEAN : UpdateLoad(p, readable)
    \/ \E p \in procs, ok \in BOOLEAN : SaveOpen(p, ok)
    \/ \E p \in procs, ok \in BOOLEAN : SaveWrite(p, ok)
    \/ \E p \in procs : Return(p)
    \/ \E u \in Urls, r \in RemoteStates : RemoteChange(u, r)

Spec == Init /\ [][Next]_vars

\* Parallel callers: each makes one call; the resources stay as they are.
NextConc ==
    \/ \E p \in procs, t \in RequestTipos, a \in Anos : Call(p, t, a)
    \/ \E p \in procs, ok \in BOOLEAN : HeadRequest(p, ok)
    \/ \E p \in procs, readable \in BOOLEAN : Check(p, readable)
    \/ \E p \in procs : TempDir(p)
    \/ \E p \in procs : /\ pc[p] = "get"
                        /\ \E ok \in BOOLEAN,
                              archive \in Archives(tipo_consulta[p], ano[p]) :
                               GetRequest(p, ok, archive)
    \/ \E p \in procs : Extract(p)
    \/ \E p \in procs, outcome \in {"mkdir", "open", "write", "ok"} : Store(p, outcome)
    \/ \E p \in procs, readable \in BOOLEAN : UpdateLoad(p, readable)
    \/ \E p \in procs, ok \in BOOLEAN : SaveOpen(p, ok)
    \/ \E p \in procs, ok \in BOOLEAN : SaveWrite(p, ok)

SpecConc == InitConc /\ [][NextConc]_vars

\* The same, with every HEAD request coming to an end: requests.head is
\* called with timeout=30, so an attempt succeeds or raises.
SpecConcFair ==
    SpecConc /\ \A p \in Procs : WF_vars(\E ok \in BOOLEAN : HeadRequest(p, ok))

(***************************************************************************)
(* check_if_download_needed on its own: every input of a bounded set       *)
(***************************************************************************)

\* Header mappings handed to check_if_download_needed: the case-insensitive
\* mapping of a response (one spelling per header), and plain dicts that
\* spell the header names in any of the ways servers do.
ETagNames == {"ETag", "etag", "ETAG"}
LastModifiedNames == {"Last-Modified", "last-modified", "LAST-MODIFIED"}
ETagValues == {"", "v1", "V1"}
LastModifiedValues == {"t1", "t2"}

DictsOver(names, values) ==
    UNION {[ns -> values] : ns \in SUBSET names}

PlainHeaders ==
    {[ci |-> FALSE, m |-> e @@ l] :
        e \in DictsOver(ETagNames, ETagValues),
        l \in DictsOver(LastModifiedNames, LastModifiedValues)}

ResponseHeaderMappings ==
    {[ci |-> TRUE, m |-> e @@ l] :
        e \in {d \in DictsOver(ETagNames, ETagValues) : Cardinality(DOMAIN d) <= 1},
        l \in {d \in DictsOver(LastModifiedNames, LastModifiedValues) :
                   Cardinality(DOMAIN d) <= 1}}

\* Persisted records: no file, a truncated file, or a table that may hold
\* an entry for cand_2022 and one for bens_2022.
StoredEntries ==
    {Entry(e, l, DestinoRel("cand", 2022, data_ingestao)) :
        e \in {None} \cup ETagValues, l \in {None} \cup LastModifiedValues}
OtherEntry == Entry("v2", "t2", DestinoRel("bens", 2022, data_ingestao))

StoredTables ==
    {c @@ b : c \in {EmptyDict} \cup {(CacheKey("cand", 2022) :> x) : x \in StoredEntries},
              b \in {EmptyDict, (CacheKey("bens", 2022) :> OtherEntry)}}

StoredFiles == {NoFile, Truncated} \cup {FileOf(t) : t \in StoredTables}

InitValidator ==
    /\ procs = {}
    /\ InitCalls
    /\ v_in \in [file : StoredFiles, readable : BOOLEAN, tipo_consulta : {"cand"},
                 ano : {2022}, headers : PlainHeaders \cup ResponseHeaderMappings]
    /\ store = NoStore

\* One call of check_if_download_needed on the drawn input.
Validate ==
    /\ ~v_out.done
    /\ v_out' = [done |-> TRUE,
                 needed |-> check_if_download_needed(v_in.file, v_in.readable,
                                v_in.tipo_consulta, v_in.ano, v_in.headers)]
    /\ UNCHANGED <<procs, fsVars, callVars, histVars, v_in, store>>

NextValidator == Validate

SpecValidator == InitValidator /\ [][NextValidator]_vars

(***************************************************************************)
(* save_metadata and load_metadata on their own: every table and file of   *)
(* a bounded set                                                           *)
(***************************************************************************)

\* Tables handed to save_metadata: up to two keys, every field of an entry
\* a string (also the empty one) or None.
SavedEntries(tipo) ==
    {Entry(e, l, f) : e \in {None, "", "v1"}, l \in {None, "t1"},
                      f \in {None, DestinoRel(tipo, 2022, data_ingestao)}}
SavedTables ==
    {c @@ b : c \in {EmptyDict} \cup {(CacheKey("cand", 2022) :> x) :
                                          x \in SavedEntries("cand")},
              b \in {EmptyDict} \cup {(CacheKey("bens", 2022) :> x) :
                                          x \in SavedEntries("bens")}}

\* Files found at metadata_path: none, a truncated text, the text `null`, or
\* the text of a table.
FoundFiles ==
    {NoFile, Truncated, NullFile, FileOf(EmptyDict),
     FileOf(CacheKey("cand", 2022) :>
                Entry("v1", "t1", DestinoRel("cand", 2022, data_ingestao)))}

InitStore ==
    /\ procs = {}
    /\ InitCalls
    /\ v_in = NoInput
    /\ store \in [file : FoundFiles, data : SavedTables, step : {"start"},
                   save : {"none"}, readable : {TRUE}, loaded : {EmptyDict},
                   check : {"none"}]

\* save_metadata(metadata_path, store.data).  outcome: "mkdir" or "open"
\* raises (the file is as before), "write" raises after the file was opened
\* and truncated, or "ok".
StoreSave(outcome) ==
    /\ store.step = "start"
    /\ store' = [store EXCEPT
           !.step = "saved",
           !.save = IF outcome = "ok" THEN "ok" ELSE "raised",
           !.file = CASE outcome \in {"mkdir", "open"} -> store.file
                      [] outcome = "write" -> Truncated
                      [] outcome = "ok" -> FileOf(store.data)]
    /\ UNCHANGED <<procs, fsVars, callVars, histVars, v_in, v_out>>

\* load_metadata(metadata_path), on the file as found or after the save.
StoreLoad(readable) ==
    /\ store.step \in {"start", "saved"}
    /\ store' = [store EXCEPT
           !.step = "loaded",
           !.readable = readable,
           !.loaded = load_metadata(store.file, readable)]
    /\ UNCHANGED <<procs, fsVars, callVars, histVars, v_in, v_out>>

\* check_if_download_needed for cand_2022 on the file as found, with the
\* headers the TSE CDN sends.
StoreCheck(readable) ==
    /\ store.step = "start"
    /\ store' = [store EXCEPT
           !.step = "checked",
           !.readable = readable,
           !.check = IF CheckRaises(store.file, readable) THEN "raised"
                     ELSE IF check_if_download_needed(store.file, readable, "cand",
                                 2022, ResponseHeaders(InitialRemote))
                          THEN "needed" ELSE "valid"]
    /\ UNCHANGED <<procs, fsVars, callVars, histVars, v_in, v_out>>

NextStore ==
    \/ \E outcome \in {"mkdir", "open", "write", "ok"} : StoreSave(outcome)
    \/ \E readable \in BOOLEAN : StoreLoad(readable)
    \/ \E readable \in BOOLEAN : StoreCheck(readable)

SpecStore == InitStore /\ [][NextStore]_vars

(***************************************************************************)
(* Properties                                                              *)
(***************************************************************************)

\* The keys of the table a metadata file holds.
StoredKeys(file) == IF file.state = "complete" THEN DOMAIN file.text ELSE {}

\* The key and the url of the call caller p is in.
KeyOf(p) == CacheKey(tipo_consulta[p], ano[p])
Configured(p) == tipo_consulta[p] \in DOMAIN CONSULTAS_CONFIG

\* Caller p finished a call that directly follows a call for the same key
\* which stored its artifact and returned the path, the resource was not
\* replaced since that call returned, and the HEAD of p's call succeeded.
SecondOfTwo(p) ==
    /\ pc[p] = "done"
    /\ Configured(p)
    /\ last.kind = "path"
    /\ last.key = KeyOf(p)
    /\ hist[p].check # "none"

\* The call of p was skipped and touched nothing.
SkippedUntouched(p) ==
    /\ result[p] = Returned(None)
    /\ hist[p].gets = 0
    /\ metaFile = meta_before[p]

\* C1 as stated: of two calls in succession for the same key with the
\* resource unchanged, the first makes one transfer and the second returns
\* None without a transfer, and the metadata file does not change during the
\* second.
C1_TwoCallsOneTransfer ==
    \A p \in Procs : SecondOfTwo(p) => SkippedUntouched(p)

\* C1 amended: the same, provided the first call saved its cache entry, the
\* resource was not replaced since the GET of the first call, it carries a
\* non-empty ETag or Last-Modified, and the second call could read the
\* metadata file.
C1_TwoCallsOneTransferWhenCached ==
    \A p \in Procs :
        ( /\ SecondOfTwo(p)
          /\ last.saved
          /\ last.fresh
          /\ ~hist[p].read_failed
          /\ LET r == remote[Url(tipo_consulta[p], ano[p])]
             IN  Truthy(r.etag) \/ Truthy(r.last_modified) )
        => SkippedUntouched(p)

C1_Witness ==
    \E p \in Procs :
        /\ SecondOfTwo(p)
        /\ last.saved
        /\ last.fresh
        /\ ~hist[p].read_failed
        /\ Truthy(remote[Url(tipo_consulta[p], ano[p])].etag)
        /\ SkippedUntouched(p)
        /\ KeyOf(p) \in StoredKeys(metaFile)

\* C2: once check_if_download_needed answered that no download is needed,
\* the call has returned None, and it issued no GET, created no temporary
\* directory, and left the artifacts and the metadata file as they were when
\* it began.
C2_SkipLeavesAllUnchanged ==
    \A p \in Procs :
        hist[p].check = "valid" =>
            /\ pc[p] = "done"
            /\ result[p] = Returned(None)
            /\ hist[p].gets = 0
            /\ hist[p].temps = 0
            /\ ~temp_dir[p]
            /\ artifacts = artifacts_before[p]
            /\ metaFile = meta_before[p]

C2_Witness ==
    \E p \in Procs :
        /\ hist[p].check = "valid"
        /\ result[p] = Returned(None)
        /\ KeyOf(p) \in StoredKeys(metaFile)
        /\ artifacts[CaminhoFinal(BasePath, tipo_consulta[p], ano[p], data_ingestao)]
               = "complete"

\* C3: when MAX_RETRIES HEAD attempts of a call have failed, the call has
\* raised RequestException, and it issued no GET, created no temporary
\* directory, wrote no artifact and left the metadata file as it was.
C3_ProbeFailureAborts ==
    \A p \in Procs :
        hist[p].head_failures = MAX_RETRIES =>
            /\ pc[p] = "done"
            /\ result[p] = Raised("RequestException")
            /\ hist[p].gets = 0
            /\ hist[p].temps = 0
            /\ artifacts = artifacts_before[p]
            /\ metaFile = meta_before[p]

C3_Witness ==
    \E p \in Procs :
        /\ hist[p].head_failures = MAX_RETRIES
        /\ result[p] = Raised("RequestException")
        /\ KeyOf(p) \in StoredKeys(metaFile)

\* C4: a call that raised after its HEAD succeeded (GET error, bad archive,
\* member not found, mkdir or copy failure) left the metadata file exactly
\* as it was when the call began.
C4_FailureLeavesCacheUntouched ==
    \A p \in Procs :
        (pc[p] = "done" /\ result[p].kind = "raise" /\ hist[p].check # "none")
        => metaFile = meta_before[p]

C4_Witness ==
    \E p \in Procs :
        /\ pc[p] = "done"
        /\ result[p] = Raised("FileNotFoundError")
        /\ hist[p].check = "needed"
        /\ KeyOf(p) \in StoredKeys(metaFile)
        /\ metaFile = meta_before[p]

\* C5: when update_metadata_after_download raised, the artifact is complete
\* at its final path and the call has returned that path.
C5_CacheUpdateFailureIsNotFatal ==
    \A p \in Procs :
        hist[p].update = "raised" =>
            /\ pc[p] = "done"
            /\ result[p] = StoredPath(p)
            /\ artifacts[CaminhoFinal(BasePath, tipo_consulta[p], ano[p], data_ingestao)]
                   = "complete"

C5_Witness ==
    \E p \in Procs :
        /\ hist[p].update = "raised"
        /\ result[p] = StoredPath(p)
        /\ metaFile = Truncated

\* C6 (under SpecConc): when two parallel calls for different keys have both
\* returned their path and both saved the metadata file, the file holds the
\* entry of each.
C6_ParallelCallsKeepBothEntries ==
    ( /\ pc["p1"] = "done" /\ pc["p2"] = "done"
      /\ Configured("p1") /\ Configured("p2")
      /\ KeyOf("p1") # KeyOf("p2")
      /\ hist["p1"].update = "ok" /\ hist["p2"].update = "ok" )
    => {KeyOf("p1"), KeyOf("p2")} \subseteq StoredKeys(metaFile)

\* C7: while save_metadata is writing, load_metadata sees the table of before
\* the save or the table being saved, and after a save that raised it sees
\* the table of before.
C7_SaveIsAtomic ==
    \A p \in Procs :
        /\ pc[p] = "save_write" =>
               load_metadata(metaFile, TRUE)
                   \in {load_metadata(meta_before[p], TRUE), metadata[p]}
        /\ (pc[p] = "done" /\ hist[p].update = "raised") =>
               load_metadata(metaFile, TRUE) = load_metadata(meta_before[p], TRUE)

\* C8: when a call has ended, every key that had an entry when it began
\* still has one, and the entry of every key other than the call's own is
\* the same.
C8_EntriesAreNeverDeleted ==
    \A p \in Procs :
        pc[p] = "done" =>
            \A k \in StoredKeys(meta_before[p]) :
                /\ k \in StoredKeys(metaFile)
                /\ k # KeyOf(p) => metaFile.text[k] = meta_before[p].text[k]

\* C9 (under SpecValidator): check_if_download_needed answers True whenever
\* the metadata file holds no entry for the key, whatever the headers.
C9_NoEntryNeedsDownload ==
    (v_out.done /\ CacheKey(v_in.tipo_consulta, v_in.ano) \notin StoredKeys(v_in.file))
    => v_out.needed

C9_Witness ==
    /\ v_out.done
    /\ v_out.needed
    /\ StoredKeys(v_in.file) = {CacheKey("bens", 2022)}
    /\ v_in.headers.ci
    /\ v_in.headers.m = ("ETag" :> "v1") @@ ("Last-Modified" :> "t1")

\* The value check_if_download_needed reads for a header out of the mapping
\* it is given, under the header's capitalised or its lower-case name.
Probed(headers, name, lower) == Or(HeadersGet(headers, name), HeadersGet(headers, lower))

\* The value the file stores in a field of the entry of the key.
Stored(file, key, field) == PyValue(file.text[key][field])

\* The input of the validator check holds an entry for the key and the file
\* was read.
EntryRead ==
    /\ v_out.done
    /\ v_in.readable
    /\ CacheKey(v_in.tipo_consulta, v_in.ano) \in StoredKeys(v_in.file)

\* C10 (under SpecValidator): when the HEAD headers and the stored entry
\* both carry a non-empty ETag, the answer is True exactly when the two
\* ETags differ as strings (so also when they differ in case only),
\* whatever the Last-Modified values are.
C10_ETagDecidesAlone ==
    LET key == CacheKey(v_in.tipo_consulta, v_in.ano)
    IN  ( /\ EntryRead
          /\ Truthy(Probed(v_in.headers, "ETag", "etag"))
          /\ Truthy(Stored(v_in.file, key, "ETag")) )
        => (v_out.needed <=>
               Probed(v_in.headers, "ETag", "etag") # Stored(v_in.file, key, "ETag"))

C10_Witness ==
    LET key == CacheKey(v_in.tipo_consulta, v_in.ano)
    IN  /\ EntryRead
        /\ Probed(v_in.headers, "ETag", "etag") = "v1"
        /\ Stored(v_in.file, key, "ETag") = "v1"
        /\ Probed(v_in.headers, "Last-Modified", "last-modified") = "t2"
        /\ Stored(v_in.file, key, "Last-Modified") = "t1"
        /\ ~v_out.needed

\* C11 (under SpecValidator): when the key has an entry and the ETag is not
\* non-empty on both sides (HEAD headers and stored entry), the answer is
\* False exactly when Last-Modified is non-empty on both sides and the two
\* values are equal; it is True when they differ or one side has none.
C11_LastModifiedIsTheFallback ==
    LET key == CacheKey(v_in.tipo_consulta, v_in.ano)
    IN  ( /\ EntryRead
          /\ ~( /\ Truthy(Probed(v_in.headers, "ETag", "etag"))
                /\ Truthy(Stored(v_in.file, key, "ETag")) ) )
        => (~v_out.needed <=>
               /\ Truthy(Probed(v_in.headers, "Last-Modified", "last-modified"))
               /\ Truthy(Stored(v_in.file, key, "Last-Modified"))
               /\ Probed(v_in.headers, "Last-Modified", "last-modified")
                      = Stored(v_in.file, key, "Last-Modified"))

C11_Witness ==
    LET key == CacheKey(v_in.tipo_consulta, v_in.ano)
    IN  /\ EntryRead
        /\ Probed(v_in.headers, "ETag", "etag") = "v1"
        /\ Stored(v_in.file, key, "ETag") = None
        /\ Probed(v_in.headers, "Last-Modified", "last-modified") = "t1"
        /\ Stored(v_in.file, key, "Last-Modified") = "t1"
        /\ ~v_out.needed

\* The usual spelling of a header name, and a mapping with every name
\* spelled that way.  OneSpelling: no header occurs under two spellings.
CanonicalName(n) ==
    IF Lower(n) = "etag" THEN "ETag"
    ELSE IF Lower(n) = "last-modified" THEN "Last-Modified" ELSE n
OneSpelling(h) == \A a, b \in DOMAIN h.m : Lower(a) = Lower(b) => a = b
Canonical(h) ==
    [ci |-> h.ci,
     m  |-> [c \in {CanonicalName(n) : n \in DOMAIN h.m} |->
                h.m[CHOOSE n \in DOMAIN h.m : CanonicalName(n) = c]]]

\* C12 (under SpecValidator): the answer of check_if_download_needed does
\* not depend on the letter case of the header names: it is the answer for
\* the same headers spelled 'ETag' and 'Last-Modified'.
C12_HeaderLookupIgnoresCase ==
    (v_out.done /\ OneSpelling(v_in.headers))
    => v_out.needed = check_if_download_needed(v_in.file, v_in.readable,
                          v_in.tipo_consulta, v_in.ano, Canonical(v_in.headers))

\* C13 (under SpecStore): when save_metadata returned and load_metadata then
\* read the file, it returned a table equal to the one saved.
C13_SaveThenLoadReturnsTheTable ==
    (store.step = "loaded" /\ store.save = "ok" /\ store.readable)
    => store.loaded = store.data

C13_Witness ==
    /\ store.step = "loaded"
    /\ store.save = "ok"
    /\ store.readable
    /\ DOMAIN store.data = {CacheKey("cand", 2022), CacheKey("bens", 2022)}
    /\ store.data[CacheKey("cand", 2022)]["ETag"] = None
    /\ store.data[CacheKey("bens", 2022)]["ETag"] = ""
    /\ store.data[CacheKey("bens", 2022)]["file_path"] = None
    /\ store.file # FileOf(EmptyDict)
    /\ store.loaded = store.data

\* The file holds the complete text of a table.
IsTableFile(file) == file.state = "complete"

C15_InvalidTipoFailsBeforeAnyIO ==
    \A p \in Procs :
        (pc[p] # "idle" /\ ~Configured(p)) =>
            /\ pc[p] = "done"
            /\ result[p] = Raised("ValueError")
            /\ hist[p] = NoHist
            /\ ~temp_dir[p]
            /\ artifacts = artifacts_before[p]
            /\ metaFile = meta_before[p]

C15_Witness ==
    \E p \in Procs :
        /\ pc[p] = "done"
        /\ tipo_consulta[p] = "municipio"
        /\ result[p] = Raised("ValueError")
        /\ CacheKey("cand", 2022) \in StoredKeys(metaFile)

\* The storage folder the docstring of the interactive script documents for
\* a dataset type (test_download.py lines 10-33).
DocumentedFolder ==
    [ cand        |-> "candidatos",
      cassacao    |-> "candidatos",
      bens        |-> "candidatos",
      vot_partido |-> "votacao_partido_munzona",
      vot_cand    |-> "votacao_candidato_munzona" ]

\* The path the docstring documents for the artifact of a call.
DocumentedPath(base, tipo, a, data) ==
    base \o "/" \o DocumentedFolder[tipo] \o "/" \o ToString(a) \o "/"
        \o NomeArquivoFinal(tipo, a, data)

\* C16: a call for a documented dataset type that returned a path returned
\* the documented one, and the artifact is complete there.
C16_StoredUnderDocumentedFolder ==
    \A p \in Procs :
        ( /\ pc[p] = "done"
          /\ tipo_consulta[p] \in DOMAIN DocumentedFolder
          /\ result[p].kind = "return"
          /\ result[p].value # None )
        => /\ result[p].value
                = DocumentedPath(BasePath, tipo_consulta[p], ano[p], data_ingestao)
           /\ artifacts[result[p].value] = "complete"

\* C17: in every call, a GET is issued only after a HEAD of the call
\* succeeded and check_if_download_needed answered True; the metadata file
\* is opened for writing only after the GET succeeded, the member was
\* extracted and the artifact is complete at its final path; and it is
\* opened for writing at most once, which is the only way the call changes it.
C17_StepsAreOrdered ==
    \A p \in Procs :
        /\ hist[p].gets > 0 => (hist[p].head_ok /\ hist[p].check = "needed")
        /\ hist[p].writes > 0 =>
               /\ hist[p].get_ok
               /\ hist[p].extracted
               /\ hist[p].copied
               /\ artifacts[CaminhoFinal(BasePath, tipo_consulta[p], ano[p],
                                         data_ingestao)] = "complete"
        /\ hist[p].writes <= 1
        /\ (pc[p] # "idle" /\ metaFile # meta_before[p]) => hist[p].writes = 1

C17_Witness ==
    \E p \in Procs :
        /\ pc[p] = "done"
        /\ hist[p].heads = 2
        /\ hist[p].gets = 1
        /\ hist[p].writes = 1
        /\ hist[p].update = "ok"
        /\ metaFile # meta_before[p]
        /\ StoredKeys(metaFile) = {CacheKey("cand", 2022), CacheKey("bens", 2022)}

\* What a call that reached the HEAD loop has done there so far: at most
\* MAX_RETRIES requests and at least one once the loop is left; every request
\* but a successful last one failed; the loop goes on only while none
\* succeeded; the headers handed to check_if_download_needed are those of
\* the successful response; without a success the call raised
\* RequestException after MAX_RETRIES requests.
ProbeLoopBounded(p) ==
    /\ hist[p].heads <= MAX_RETRIES
    /\ pc[p] # "head" => hist[p].heads >= 1
    /\ hist[p].heads = hist[p].head_failures + (IF hist[p].head_ok THEN 1 ELSE 0)
    /\ pc[p] = "head" => (~hist[p].head_ok /\ attempt[p] = hist[p].heads + 1)
    /\ hist[p].check # "none" => (hist[p].head_ok /\ hist[p].checked = hist[p].probe)
    /\ (pc[p] # "head" /\ ~hist[p].head_ok) =>
           /\ pc[p] = "done"
           /\ result[p] = Raised("RequestException")
           /\ hist[p].heads = MAX_RETRIES

\* C18 (under SpecConcFair): the HEAD loop of every call is bounded as
\* ProbeLoopBounded says, and a call that is in the loop leaves it.
C18_ProbeIsRetriedWithinBound ==
    /\ [](\A p \in Procs : (pc[p] # "idle" /\ Configured(p)) => ProbeLoopBounded(p))
    /\ \A p \in Procs : (pc[p] = "head") ~> (pc[p] # "head")

C18_Witness ==
    \E p \in Procs :
        /\ hist[p].heads = MAX_RETRIES
        /\ hist[p].head_failures = MAX_RETRIES - 1
        /\ hist[p].head_ok
        /\ hist[p].check = "valid"
        /\ hist[p].checked = ResponseHeaders(InitialRemote)

\* C19: the temporary directory of a call exists only after
\* check_if_download_needed answered True, it is created once and before the
\* GET is issued, and it no longer exists when the call has ended, however
\* it ended.
C19_TempDirIsReleased ==
    \A p \in Procs :
        /\ (temp_dir[p] \/ hist[p].temps > 0) => hist[p].check = "needed"
        /\ hist[p].gets > 0 => hist[p].temps = 1
        /\ hist[p].temps <= 1
        /\ temp_dir[p] => hist[p].temps = 1
        /\ pc[p] \in {"done", "idle"} => ~temp_dir[p]

C19_Witness ==
    \E p \in Procs :
        /\ pc[p] = "done"
        /\ hist[p].temps = 1
        /\ result[p] = Raised("IOError")
        /\ artifacts[CaminhoFinal(BasePath, tipo_consulta[p], ano[p], data_ingestao)]
               = "partial"
        /\ ~temp_dir[p]

\* C20: when a call has stored its artifact and saved the metadata file, the
\* entry of its key holds the ETag and the Last-Modified of the response to
\* its GET (null for a header the response did not carry), whatever the
\* response to its HEAD carried.
C20_EntryHoldsGetHeaders ==
    \A p \in Procs :
        (pc[p] = "done" /\ hist[p].update = "ok") =>
            /\ KeyOf(p) \in StoredKeys(metaFile)
            /\ Stored(metaFile, KeyOf(p), "ETag") = HeadersGet(hist[p].get, "ETag")
            /\ Stored(metaFile, KeyOf(p), "Last-Modified")
                   = HeadersGet(hist[p].get, "Last-Modified")

C20_Witness ==
    \E p \in Procs :
        /\ pc[p] = "done"
        /\ hist[p].update = "ok"
        /\ HeadersGet(hist[p].probe, "ETag") = "v1"
        /\ HeadersGet(hist[p].get, "ETag") = "v2"
        /\ Stored(metaFile, KeyOf(p), "ETag") = "v2"
        /\ result[p] = StoredPath(p)

\* The file holds for the key an entry whose ETag and Last-Modified are both
\* null.
NoValidatorEntry(file, key) ==
    /\ key \in StoredKeys(file)
    /\ Stored(file, key, "ETag") = None
    /\ Stored(file, key, "Last-Modified") = None

\* C21: a call that stored its artifact and saved the metadata file after a
\* GET response without ETag and Last-Modified left an entry with both
\* null; and a call that began with such an entry for its key and whose HEAD
\* succeeded was told to download: it is never skipped, and when it has
\* ended it has issued its GET.
C21_NoValidatorEntryAlwaysDownloads ==
    \A p \in Procs :
        /\ (pc[p] = "done" /\ hist[p].update = "ok" /\ hist[p].get = NoHeaders)
               => NoValidatorEntry(metaFile, KeyOf(p))
        /\ ( /\ pc[p] # "idle" /\ Configured(p)
             /\ NoValidatorEntry(meta_before[p], KeyOf(p))
             /\ hist[p].check # "none" )
           => /\ hist[p].check = "needed"
              /\ result[p] # Returned(None)
              /\ pc[p] = "done" => hist[p].gets = 1

C21_Witness ==
    \E p \in Procs :
        /\ pc[p] = "done"
        /\ NoValidatorEntry(meta_before[p], KeyOf(p))
        /\ ~hist[p].read_failed
        /\ hist[p].check = "needed"
        /\ hist[p].gets = 1
        /\ hist[p].update = "ok"
        /\ hist[p].get = NoHeaders
        /\ NoValidatorEntry(metaFile, KeyOf(p))
        /\ result[p] = StoredPath(p)

\* C22: every entry of the metadata file belongs to a key whose artifact
\* was completely written to its final path before, and its file_path is
\* that path relative to the base path; and a call that is saving the
\* metadata file has completely written its artifact and saves that
\* relative path for its key.
C22_EntriesFollowArtifacts ==
    /\ \A k \in StoredKeys(metaFile) :
           \E t \in ValidTipos, a \in Anos :
               /\ k = CacheKey(t, a)
               /\ CaminhoFinal(BasePath, t, a, data_ingestao) \in persisted
               /\ BasePath \o "/" \o Stored(metaFile, k, "file_path")
                      = CaminhoFinal(BasePath, t, a, data_ingestao)
    /\ \A p \in Procs :
           pc[p] \in {"save_open", "save_write"} =>
               /\ hist[p].copied
               /\ CaminhoFinal(BasePath, tipo_consulta[p], ano[p], data_ingestao)
                      \in persisted
               /\ metadata[p][KeyOf(p)]["file_path"]
                      = DestinoRel(tipo_consulta[p], ano[p], data_ingestao)

C22_Witness ==
    /\ StoredKeys(metaFile) = {CacheKey("cand", 2022), CacheKey("bens", 2022)}
    /\ Stored(metaFile, CacheKey("bens", 2022), "file_path")
           = DestinoRel("bens", 2022, data_ingestao)
    /\ artifacts[CaminhoFinal(BasePath, "bens", 2022, data_ingestao)] = "partial"
    /\ persisted = FinalPaths
    /\ pc["p1"] = "done"

====
